---- MODULE Spec2Model ----
(***************************************************************************)
(* Pizzeria operations suite: the CSV sales importer                       *)
(* (sales/management/commands/import_pizza_sales.py), the session cart and *)
(* checkout (sales/views.py), the kitchen dispatch endpoint                *)
(* (kitchen/views.py) and the relational records they read and write       *)
(* (sales/models.py).                                                      *)
(*                                                                         *)
(* Text is a sequence of one-character strings, so that str.strip() is a   *)
(* real function.  A CSV file is a header (sequence of column names) and a *)
(* sequence of rows (sequences of raw field values) and is read the way    *)
(* csv.DictReader reads it.  Money is counted in cents.  Timestamps are    *)
(* seconds on one linear scale shared by the clock and the parsed CSV      *)
(* dates.                                                                  *)
(***************************************************************************)
EXTENDS Integers, Sequences, FiniteSets, TLC

----------------------------------------------------------------------------
\* Bounds of the model

MaxRows == 2

MaxTime == 1

MaxQty == 2

MaxCart == 2

MaxPk == 4

MaxOrders == 3

MaxItems == 3

\* requests served step by step in one behaviour
MaxReq == 2

----------------------------------------------------------------------------
\* Generic helpers

Range(s) == {s[i] : i \in 1..Len(s)}

Ok(v) == [exc |-> "", none |-> FALSE, val |-> v]

OkNone == [exc |-> "", none |-> TRUE, val |-> <<>>]

Raise(e) == [exc |-> e, none |-> FALSE, val |-> <<>>]

RECURSIVE lstrip(_)
lstrip(s) == IF s # <<>> /\ Head(s) = " " THEN lstrip(Tail(s)) ELSE s

RECURSIVE rstrip(_)
rstrip(s) == IF s # <<>> /\ s[Len(s)] = " " THEN rstrip(SubSeq(s, 1, Len(s) - 1)) ELSE s

\* str.strip()
strip(s) == rstrip(lstrip(s))

----------------------------------------------------------------------------
\* csv.DictReader: row[col]

\* a column that is not in the header raises KeyError; a row shorter than
\* the header yields None (restval) for the columns it lacks
RowGet(header, row, col) ==
    IF col \notin Range(header) THEN Raise("KeyError")
    ELSE LET i == CHOOSE j \in 1..Len(header) : header[j] = col
         IN IF i > Len(row) THEN OkNone ELSE Ok(row[i])

\* row[col].strip(): None has no attribute strip
StripField(r) ==
    IF r.exc # "" THEN r
    ELSE IF r.none THEN Raise("AttributeError")
    ELSE Ok(strip(r.val))

\* Numeric literals that float() accepts: <<literal, value in tenths>>
FloatLiterals ==
    { <<"0", 0>>, <<"1", 10>>, <<"2", 20>>, <<"3", 30>>, <<"4", 40>>,
      <<"2.0", 20>>, <<"1.9", 19>> }

InfLiterals == {"inf", "1e999"}

\* int(float(row[col]))
IntFloatField(r) ==
    IF r.exc # "" THEN r
    ELSE IF r.none THEN Raise("TypeError")
    ELSE IF \E p \in FloatLiterals : p[1] = r.val
         THEN Ok((CHOOSE p \in FloatLiterals : p[1] = r.val)[2] \div 10)
    ELSE IF r.val \in InfLiterals THEN Raise("OverflowError")
    ELSE Raise("ValueError")

\* Decimal literals: <<literal, value in cents>>
DecimalLiterals ==
    { <<"10.00", 1000>>, <<"12.5", 1250>>, <<"12.50", 1250>>,
      <<"20.00", 2000>>, <<"25.00", 2500>> }

\* Decimal(str(row[col])): str(None) is "None", which is no number
DecimalField(r) ==
    IF r.exc # "" THEN r
    ELSE IF r.none THEN Raise("InvalidOperation")
    ELSE IF \E p \in DecimalLiterals : p[1] = r.val
         THEN Ok((CHOOSE p \in DecimalLiterals : p[1] = r.val)[2])
    ELSE Raise("InvalidOperation")

----------------------------------------------------------------------------
\* datetime.strptime over tokenised text: a date or time string is a
\* sequence of tokens, each a digit group or a separator

\* <<digit group, value, number of digits>>
Numerals ==
    { <<"00", 0, 2>>, <<"1", 1, 1>>, <<"01", 1, 2>>, <<"2", 2, 1>>,
      <<"02", 2, 2>>, <<"11", 11, 2>>, <<"12", 12, 2>>, <<"13", 13, 2>>,
      <<"30", 30, 2>>, <<"31", 31, 2>>, <<"2015", 2015, 4>> }

IsNumeral(t) == \E n \in Numerals : n[1] = t

NumVal(t) == (CHOOSE n \in Numerals : n[1] = t)[2]

NumDigits(t) == (CHOOSE n \in Numerals : n[1] = t)[3]

date_formats ==
    << <<"%m", "/", "%d", "/", "%Y">>,
       <<"%d", "/", "%m", "/", "%Y">>,
       <<"%d", "-", "%m", "-", "%Y">>,
       <<"%Y", "-", "%m", "-", "%d">> >>

time_formats ==
    << <<"%H", ":", "%M", ":", "%S">>,
       <<"%H", ":", "%M">> >>

Directives == {"%m", "%d", "%Y", "%H", "%M", "%S"}

\* one directive against one token
DirectiveOk(d, t) ==
    /\ IsNumeral(t)
    /\ CASE d = "%Y" -> NumDigits(t) = 4
         [] d = "%m" -> NumDigits(t) <= 2 /\ NumVal(t) \in 1..12
         [] d = "%d" -> NumDigits(t) <= 2 /\ NumVal(t) \in 1..31
         [] d = "%H" -> NumDigits(t) <= 2 /\ NumVal(t) \in 0..23
         [] d = "%M" -> NumDigits(t) <= 2 /\ NumVal(t) \in 0..59
         [] d = "%S" -> NumDigits(t) <= 2 /\ NumVal(t) \in 0..61

DaysInMonth(y, m) ==
    IF m = 2 THEN (IF y % 4 = 0 /\ (y % 100 # 0 \/ y % 400 = 0) THEN 29 ELSE 28)
    ELSE IF m \in {4, 6, 9, 11} THEN 30 ELSE 31

\* the value a format's directive d takes in the token sequence, or dflt
DirVal(fmt, toks, d, dflt) ==
    IF \E i \in 1..Len(fmt) : fmt[i] = d
    THEN NumVal(toks[CHOOSE i \in 1..Len(fmt) : fmt[i] = d])
    ELSE dflt

\* datetime.strptime(text, fmt): ValueError unless every token matches and
\* the day exists in the month
strptime(toks, fmt) ==
    IF /\ Len(toks) = Len(fmt)
       /\ \A i \in 1..Len(fmt) :
            IF fmt[i] \in Directives THEN DirectiveOk(fmt[i], toks[i])
            ELSE toks[i] = fmt[i]
       /\ DirVal(fmt, toks, "%d", 1)
            <= DaysInMonth(DirVal(fmt, toks, "%Y", 1900), DirVal(fmt, toks, "%m", 1))
    THEN Ok([Y |-> DirVal(fmt, toks, "%Y", 1900), m |-> DirVal(fmt, toks, "%m", 1),
             d |-> DirVal(fmt, toks, "%d", 1), H |-> DirVal(fmt, toks, "%H", 0),
             M |-> DirVal(fmt, toks, "%M", 0), S |-> DirVal(fmt, toks, "%S", 0)])
    ELSE Raise("ValueError")

\* timezone.make_aware(dt) as seconds on the model's linear time scale, which
\* starts with the year 2015 and gives every month 31 day slots
make_aware(dt) ==
    (((dt.Y - 2015) * 372 + (dt.m - 1) * 31 + (dt.d - 1)) * 86400)
      + dt.H * 3600 + dt.M * 60 + dt.S

\* the nested loop over date_formats and time_formats: the first pair that
\* parses wins; no pair parsing raises ValueError
ParseDateTime(order_date, order_time) ==
    LET text == order_date \o <<" ">> \o order_time
        pairs == { <<i, j>> \in (1..Len(date_formats)) \X (1..Len(time_formats)) :
                     strptime(text, date_formats[i] \o <<" ">> \o time_formats[j]).exc = "" }
    IN IF pairs = {} THEN Raise("ValueError")
       ELSE LET first == CHOOSE p \in pairs :
                            \A q \in pairs : p[1] < q[1] \/ (p[1] = q[1] /\ p[2] <= q[2])
            IN Ok(make_aware(strptime(text,
                     date_formats[first[1]] \o <<" ">> \o time_formats[first[2]]).val))

----------------------------------------------------------------------------
\* Parsing one CSV row (the try block of _import)

\* exceptions the row loop catches: the row is skipped
Caught == {"KeyError", "ValueError", "InvalidOperation"}

\* lines 76-82 and 104-109: the twelve columns as the try block reads them,
\* in program order
RowFields(header, row) ==
    << IntFloatField(RowGet(header, row, "pizza_id")),
       IntFloatField(RowGet(header, row, "order_id")),
       StripField(RowGet(header, row, "pizza_name_id")),
       IntFloatField(RowGet(header, row, "quantity")),
       StripField(RowGet(header, row, "order_date")),
       StripField(RowGet(header, row, "order_time")),
       DecimalField(RowGet(header, row, "unit_price")),
       DecimalField(RowGet(header, row, "total_price")),
       StripField(RowGet(header, row, "pizza_size")),
       StripField(RowGet(header, row, "pizza_category")),
       StripField(RowGet(header, row, "pizza_ingredients")),
       StripField(RowGet(header, row, "pizza_name")) >>

\* lines 83-102: ordered_at from the stripped date and time
OrderedAt(order_date, order_time) ==
    IF order_date.exc = "" /\ order_time.exc = ""
    THEN ParseDateTime(order_date.val, order_time.val)
    ELSE Ok(0)

\* the statements of the try block in program order: ordered_at is computed
\* after order_time and before unit_price
TrySteps(f) == SubSeq(f, 1, 6) \o <<OrderedAt(f[5], f[6])>> \o SubSeq(f, 7, 12)

\* the first statement that raises decides the outcome of the row
TryBlock(steps) ==
    LET failed == {i \in 1..Len(steps) : steps[i].exc # ""}
    IN IF failed # {}
       THEN [exc |-> steps[CHOOSE i \in failed : \A j \in failed : i <= j].exc]
       ELSE [exc |-> "",
             source_line_id |-> steps[1].val, order_id |-> steps[2].val,
             pizza_slug |-> steps[3].val, qty |-> steps[4].val,
             ordered_at |-> steps[7].val, unit_price |-> steps[8].val,
             total_price |-> steps[9].val, size |-> steps[10].val,
             category |-> steps[11].val, ingredients |-> steps[12].val,
             name |-> steps[13].val]

ParseRow(header, row) == TryBlock(TrySteps(RowFields(header, row)))

----------------------------------------------------------------------------
\* Relational records (sales/models.py)

\* SQL NULL of a text column, of a timestamp column and of an integer column
NullText == <<"<null>">>

NullTime == -1

NullLine == -1

Status == {"new", "preparing", "out_for_delivery", "delivered"}

NewPizza(id, name, category, ingredients) ==
    [id |-> id, name |-> name, category |-> category, ingredients |-> ingredients]

NewVariant(id, pizza, size, slug, unit_price) ==
    [id |-> id, pizza |-> pizza, size |-> size, slug |-> slug, unit_price |-> unit_price]

NewOrder(id, external_id, ordered_at, first, last, phone, street, city, zip) ==
    [id |-> id, external_id |-> external_id, ordered_at |-> ordered_at,
     status |-> "new", out_for_delivery_at |-> NullTime,
     customer_first_name |-> first, customer_last_name |-> last,
     phone |-> phone, street |-> street, city |-> city, zip_code |-> zip]

NewOrderItem(id, order, variant, quantity, unit_price, total_price, source_line_id) ==
    [id |-> id, order |-> order, variant |-> variant, quantity |-> quantity,
     unit_price |-> unit_price, total_price |-> total_price,
     source_line_id |-> source_line_id]

\* the row with primary key id, replaced by r
Save(table, r) == {x \in table : x.id # r.id} \cup {r}

\* a lookup that never finds the pizza
PizzaLookup_NoMatch(pizzas, name, category) == {}

\* the lookups of the four get_or_create calls
PizzaLookup(pizzas, name, category) ==
    {p \in pizzas : p.name = name /\ p.category = category}

VariantLookup(variants, pizza, size) ==
    {v \in variants : v.pizza = pizza /\ v.size = size}

\* a lookup that never finds the order
OrderLookup_NoMatch(orders, external_id) == {}

OrderLookup(orders, external_id) ==
    {o \in orders : o.external_id = external_id}

\* a lookup that never finds the item
ItemLookup_NoMatch(items, source_line_id) == {}

ItemLookup(items, source_line_id) ==
    {it \in items : it.source_line_id = source_line_id}

\* slug = SlugField(unique=True): another variant already has the slug
SlugTaken(variants, id, slug) ==
    \E v \in variants : v.id # id /\ v.slug = slug

----------------------------------------------------------------------------
\* Inputs

\* the columns of pizza_sales.csv
Fields ==
    << "pizza_id", "order_id", "pizza_name_id", "quantity", "order_date",
       "order_time", "unit_price", "total_price", "pizza_size",
       "pizza_category", "pizza_ingredients", "pizza_name" >>

\* a complete header, and one that lacks the pizza_name column
Headers == {Fields, SubSeq(Fields, 1, Len(Fields) - 1)}

\* line 1 of order 1: a medium H at 10.00, US date 2 Jan 2015
RowA ==
    << "1", "1", <<"h", "m">>, "1", <<"01", "/", "02", "/", "2015">>,
       <<"11", ":", "30", ":", "00">>, "10.00", "10.00", <<"M">>, <<"C">>,
       <<"i">>, <<"H">> >>

\* line 1 again, now in order 2: two large H at 12.5, European date
\* 13 Jan 2015, no seconds, no ingredients
RowB ==
    << "1", "2", <<"h", "l">>, "2", <<"13", "/", "01", "/", "2015">>,
       <<"11", ":", "30">>, "12.5", "25.00", <<"L">>, <<"C">>,
       <<>>, <<"H">> >>

\* line 2 of order 1: a medium H at another price and an earlier ISO date,
\* with padded text and float-formatted numbers
RowC ==
    << "2.0", "1", <<"h", "m">>, "1.9", <<"2015", "-", "01", "-", "01">>,
       <<"11", ":", "30", ":", "00">>, "12.50", "12.50", <<" ", "M">>, <<"C">>,
       <<"i">>, <<"H", " ">> >>

\* a quantity that is no number
RowD ==
    << "3", "1", <<"h", "m">>, "x", <<"01", "/", "02", "/", "2015">>,
       <<"11", ":", "30", ":", "00">>, "10.00", "10.00", <<"M">>, <<"C">>,
       <<"i">>, <<"H">> >>

\* a date no format accepts (31 February)
RowE ==
    << "3", "1", <<"h", "m">>, "1", <<"31", "/", "02", "/", "2015">>,
       <<"11", ":", "30", ":", "00">>, "10.00", "10.00", <<"M">>, <<"C">>,
       <<"i">>, <<"H">> >>

\* a price that is no decimal
RowF ==
    << "3", "1", <<"h", "m">>, "1", <<"01", "/", "02", "/", "2015">>,
       <<"11", ":", "30", ":", "00">>, "free", "10.00", <<"M">>, <<"C">>,
       <<"i">>, <<"H">> >>

\* a line cut off after the quantity
RowG == << "2", "1", <<"h", "m">>, "1" >>

\* a line id too large for a float
RowH ==
    << "1e999", "1", <<"h", "m">>, "1", <<"01", "/", "02", "/", "2015">>,
       <<"11", ":", "30", ":", "00">>, "10.00", "10.00", <<"M">>, <<"C">>,
       <<"i">>, <<"H">> >>

\* line 2 of order 2: a small V that carries the slug of the medium H
RowI ==
    << "2", "2", <<"h", "m">>, "1", <<"01", "/", "02", "/", "2015">>,
       <<"11", ":", "30", ":", "00">>, "20.00", "20.00", <<"S">>, <<"C">>,
       <<>>, <<"V">> >>

\* line 1 again, in order 1: two large H at 12.5
RowK ==
    << "1", "1", <<"h", "l">>, "2", <<"01", "/", "02", "/", "2015">>,
       <<"11", ":", "30", ":", "00">>, "12.5", "25.00", <<"L">>, <<"C">>,
       <<"i">>, <<"H">> >>

\* line 3 of order 3: a medium H on 1 Jan 2015, an hour after RowC
RowL ==
    << "3", "3", <<"h", "m">>, "1", <<"2015", "-", "01", "-", "01">>,
       <<"12", ":", "30">>, "10.00", "10.00", <<"M">>, <<"C">>,
       <<"i">>, <<"H">> >>

RowPool == {RowA, RowB, RowC, RowD, RowG, RowI}

\* every row of the pool parsed under every header, computed once
ParseMemo == [h \in Headers |-> [r \in RowPool \cup {RowK, RowL} |-> ParseRow(h, r)]]

----------------------------------------------------------------------------
\* The body of the row loop of _import, after a row has parsed.  st is the
\* transaction's view of the tables, the primary-key sequences, the counters
\* and the three in-memory caches; each step returns the new st and the
\* primary key of the object the following steps use.  st.upserted counts the
\* rows that ran through the whole body.

CacheHit(cache, key) == \E e \in cache : e[1] = key

CacheGet(cache, key) == (CHOOSE e \in cache : e[1] = key)[2]

\* lines 115-130
PizzaStep(st, p) ==
    LET pizza_key == <<p.name, p.category, p.ingredients>>
        found == PizzaLookup(st.pizzas, p.name, p.category)
    IN IF CacheHit(st.pizza_cache, pizza_key)
       THEN [st |-> st, id |-> CacheGet(st.pizza_cache, pizza_key)]
       ELSE IF found = {}
       THEN [st |-> [st EXCEPT
                       !.pizzas = @ \cup {NewPizza(st.seq.pizza, p.name, p.category, p.ingredients)},
                       !.seq.pizza = @ + 1,
                       !.created.pizza = @ + 1,
                       !.pizza_cache = @ \cup {<<pizza_key, st.seq.pizza>>}],
             id |-> st.seq.pizza]
       ELSE IF Cardinality(found) > 1
       THEN [st |-> [st EXCEPT !.exc = "MultipleObjectsReturned"], id |-> 0]
       ELSE LET pizza == CHOOSE x \in found : TRUE
            IN [st |-> [st EXCEPT
                          !.pizzas = IF pizza.ingredients = <<>> /\ p.ingredients # <<>>
                                     THEN Save(@, [pizza EXCEPT !.ingredients = p.ingredients])
                                     ELSE @,
                          !.pizza_cache = @ \cup {<<pizza_key, pizza.id>>}],
                id |-> pizza.id]

\* lines 132-157
VariantStep(st, p, pizza_id) ==
    LET variant_key == <<pizza_id, p.size>>
        found == VariantLookup(st.variants, pizza_id, p.size)
    IN IF CacheHit(st.variant_cache, variant_key)
       THEN [st |-> st, id |-> CacheGet(st.variant_cache, variant_key)]
       ELSE IF found = {}
       THEN IF SlugTaken(st.variants, st.seq.variant, p.pizza_slug)
            THEN [st |-> [st EXCEPT !.exc = "IntegrityError"], id |-> 0]
            ELSE [st |-> [st EXCEPT
                            !.variants = @ \cup {NewVariant(st.seq.variant, pizza_id, p.size,
                                                            p.pizza_slug, p.unit_price)},
                            !.seq.variant = @ + 1,
                            !.created.variant = @ + 1,
                            !.variant_cache = @ \cup {<<variant_key, st.seq.variant>>}],
                  id |-> st.seq.variant]
       ELSE IF Cardinality(found) > 1
       THEN [st |-> [st EXCEPT !.exc = "MultipleObjectsReturned"], id |-> 0]
       ELSE LET variant == CHOOSE x \in found : TRUE
                slug == IF variant.slug = <<>> THEN p.pizza_slug ELSE variant.slug
                updated == variant.slug = <<>> \/ variant.unit_price # p.unit_price
            IN IF updated /\ SlugTaken(st.variants, variant.id, slug)
               THEN [st |-> [st EXCEPT !.exc = "IntegrityError"], id |-> 0]
               ELSE [st |-> [st EXCEPT
                               !.variants = IF updated
                                            THEN Save(@, [variant EXCEPT !.slug = slug,
                                                            !.unit_price = p.unit_price])
                                            ELSE @,
                               !.variant_cache = @ \cup {<<variant_key, variant.id>>}],
                     id |-> variant.id]

\* lines 159-173
OrderStep(st, p) ==
    LET found == OrderLookup(st.orders, p.order_id)
    IN IF CacheHit(st.order_cache, p.order_id)
       THEN [st |-> st, id |-> CacheGet(st.order_cache, p.order_id)]
       ELSE IF found = {}
       THEN [st |-> [st EXCEPT
                       !.orders = @ \cup {NewOrder(st.seq.order, p.order_id, p.ordered_at,
                                                   NullText, NullText, NullText,
                                                   NullText, NullText, NullText)},
                       !.seq.order = @ + 1,
                       !.created.order = @ + 1,
                       !.order_cache = @ \cup {<<p.order_id, st.seq.order>>}],
             id |-> st.seq.order]
       ELSE IF Cardinality(found) > 1
       THEN [st |-> [st EXCEPT !.exc = "MultipleObjectsReturned"], id |-> 0]
       ELSE LET order == CHOOSE x \in found : TRUE
            IN [st |-> [st EXCEPT
                          !.orders = IF order.ordered_at # p.ordered_at
                                        /\ p.ordered_at < order.ordered_at
                                     THEN Save(@, [order EXCEPT !.ordered_at = p.ordered_at])
                                     ELSE @,
                          !.order_cache = @ \cup {<<p.order_id, order.id>>}],
                id |-> order.id]

\* an item step that leaves an existing item as it is
ItemStep_KeepExisting(st, p, order_id, variant_id) ==
    IF ItemLookup(st.items, p.source_line_id) = {}
    THEN [st EXCEPT
            !.items = @ \cup {NewOrderItem(st.seq.item, order_id, variant_id, p.qty,
                                           p.unit_price, p.total_price, p.source_line_id)},
            !.seq.item = @ + 1,
            !.created.item = @ + 1]
    ELSE st

\* lines 175-207
ItemStep(st, p, order_id, variant_id) ==
    LET found == ItemLookup(st.items, p.source_line_id)
    IN IF found = {}
       THEN [st EXCEPT
               !.items = @ \cup {NewOrderItem(st.seq.item, order_id, variant_id, p.qty,
                                              p.unit_price, p.total_price, p.source_line_id)},
               !.seq.item = @ + 1,
               !.created.item = @ + 1]
       ELSE IF Cardinality(found) > 1
       THEN [st EXCEPT !.exc = "MultipleObjectsReturned"]
       ELSE LET item == CHOOSE x \in found : TRUE
                reconciled ==
                    [item EXCEPT
                       !.order = IF @ # order_id THEN order_id ELSE @,
                       !.variant = IF @ # variant_id THEN variant_id ELSE @,
                       !.quantity = IF @ # p.qty THEN p.qty ELSE @,
                       !.unit_price = IF @ # p.unit_price THEN p.unit_price ELSE @,
                       !.total_price = IF @ # p.total_price THEN p.total_price ELSE @]
            IN [st EXCEPT !.items = Save(@, reconciled)]

\* a row that ran through the whole body is counted
Upserted(d) == IF d.exc # "" THEN d ELSE [d EXCEPT !.upserted = @ + 1]

\* lines 175-207, reached when the order step raised nothing
ItemPart(c, p, variant_id) ==
    IF c.st.exc # "" THEN c.st ELSE Upserted(ItemStep(c.st, p, c.id, variant_id))

\* lines 159-207, reached when the variant step raised nothing
OrderPart(b, p) ==
    IF b.st.exc # "" THEN b.st ELSE ItemPart(OrderStep(b.st, p), p, b.id)

\* lines 132-207, reached when the pizza step raised nothing
VariantPart(a, p) ==
    IF a.st.exc # "" THEN a.st ELSE OrderPart(VariantStep(a.st, p, a.id), p)

\* lines 110-207 on the outcome p of the try block
RowBody(st, p) ==
    IF p.exc \in Caught THEN [st EXCEPT !.skipped = @ + 1]
    ELSE IF p.exc # "" THEN [st EXCEPT !.exc = p.exc]
    ELSE VariantPart(PizzaStep(st, p), p)

\* one iteration of "for i, row in enumerate(rows, start=1)"
ImportRow(st, header, row) == RowBody(st, ParseMemo[header][row])

\* the row loop: an exception that is not caught ends it
RECURSIVE ImportRows(_, _, _)
ImportRows(st, header, rows) ==
    IF rows = <<>> \/ st.exc # "" THEN st
    ELSE ImportRows(ImportRow(st, header, Head(rows)), header, Tail(rows))

\* an import that clears the tables whether --clear is given or not
_import_AlwaysClear(db, seq, file, clear) ==
    ImportRows([pizzas |-> {}, variants |-> {}, orders |-> {}, items |-> {},
                seq |-> seq,
                created |-> [pizza |-> 0, variant |-> 0, order |-> 0, item |-> 0],
                skipped |-> 0,
                upserted |-> 0,
                pizza_cache |-> {}, variant_cache |-> {}, order_cache |-> {},
                exc |-> ""],
               file.header, file.rows)

\* _import(): the optional clear, then the row loop with fresh counters and
\* empty caches, on the tables db and the primary-key sequences seq
_import(db, seq, file, clear) ==
    ImportRows([pizzas |-> IF clear THEN {} ELSE db.pizzas,
                variants |-> IF clear THEN {} ELSE db.variants,
                orders |-> IF clear THEN {} ELSE db.orders,
                items |-> IF clear THEN {} ELSE db.items,
                seq |-> seq,
                created |-> [pizza |-> 0, variant |-> 0, order |-> 0, item |-> 0],
                skipped |-> 0,
                upserted |-> 0,
                pizza_cache |-> {}, variant_cache |-> {}, order_cache |-> {},
                exc |-> ""],
               file.header, file.rows)

----------------------------------------------------------------------------
\* Session cart and checkout helpers (sales/views.py)

\* the session cart is a dict in insertion order: a sequence of
\* <<variant id, quantity>> with distinct variant ids
CartKeys(c) == {c[i][1] : i \in 1..Len(c)}

CartQty(c, k) == (CHOOSE e \in Range(c) : e[1] = k)[2]

\* a save that keeps every entry
_save_cart_KeepAll(c) == c

\* _save_cart: entries with a quantity of zero or less are dropped
_save_cart(c) == SelectSeq(c, LAMBDA e : e[2] > 0)

\* cart[k] = cart.get(k, 0) + qty
CartAdd(c, k, qty) ==
    IF k \in CartKeys(c)
    THEN [i \in 1..Len(c) |-> IF c[i][1] = k THEN <<k, c[i][2] + qty>> ELSE c[i]]
    ELSE Append(c, <<k, qty>>)

\* the loop of view_cart (lines 63-78) and of checkout (lines 117-127): one
\* line per cart entry whose variant exists, with its line total
RECURSIVE CartLines(_, _)
CartLines(c, variants) ==
    IF c = <<>> THEN <<>>
    ELSE LET vid == Head(c)[1]
             qty == Head(c)[2]
             found == {v \in variants : v.id = vid}
         IN IF found = {} \/ qty <= 0 THEN CartLines(Tail(c), variants)
            ELSE LET unit == (CHOOSE v \in found : TRUE).unit_price
                 IN <<[variant |-> vid, quantity |-> qty, unit_price |-> unit,
                       total_price |-> unit * qty]>> \o CartLines(Tail(c), variants)

\* a subtotal that adds unit prices, not line totals
RECURSIVE Subtotal_UnitPrices(_)
Subtotal_UnitPrices(lines) ==
    IF lines = <<>> THEN 0 ELSE Head(lines).unit_price + Subtotal_UnitPrices(Tail(lines))

\* subtotal += total
RECURSIVE Subtotal(_)
Subtotal(lines) ==
    IF lines = <<>> THEN 0 ELSE Head(lines).total_price + Subtotal(Tail(lines))

\* _generate_external_id at clock reading ts
_generate_external_id(ts) == 1000000000 + ts

\* the six required fields of the checkout form, in validation order
FormFields == <<"first_name", "last_name", "phone", "street", "city", "zip_code">>

\* a validation that forgets the ZIP
FormErrors_NoZip(form) ==
    {f \in Range(FormFields) \ {"zip_code"} : strip(form[f]) = <<>>}

\* errors: the fields whose value is empty after strip()
FormErrors(form) == {f \in Range(FormFields) : strip(form[f]) = <<>>}

\* range(3)
Attempts == 3

\* the candidates of "for _ in range(3)" at the clock readings ts, one per
\* attempt: the loop stops at the first candidate no Order has
RECURSIVE Candidates(_, _)
Candidates(ts, orders) ==
    IF ts = <<>> THEN <<>>
    ELSE IF OrderLookup(orders, _generate_external_id(Head(ts))) = {}
         THEN <<_generate_external_id(Head(ts))>>
         ELSE <<_generate_external_id(Head(ts))>> \o Candidates(Tail(ts), orders)

\* items that store the unit price as their total
RECURSIVE CreateItems_TotalIsUnit(_, _, _)
CreateItems_TotalIsUnit(lines, order_id, next) ==
    IF lines = <<>> THEN {}
    ELSE {NewOrderItem(next, order_id, Head(lines).variant, Head(lines).quantity,
                       Head(lines).unit_price, Head(lines).unit_price, NullLine)}
         \cup CreateItems_TotalIsUnit(Tail(lines), order_id, next + 1)

\* OrderItem.objects.create for every line, primary keys from next on
RECURSIVE CreateItems(_, _, _)
CreateItems(lines, order_id, next) ==
    IF lines = <<>> THEN {}
    ELSE {NewOrderItem(next, order_id, Head(lines).variant, Head(lines).quantity,
                       Head(lines).unit_price, Head(lines).total_price, NullLine)}
         \cup CreateItems(Tail(lines), order_id, next + 1)

\* int(text) of a posted quantity
IntLiterals == {n \in -1..(MaxQty + 1) : TRUE}

ParseInt(text) ==
    IF \E n \in IntLiterals : ToString(n) = text
    THEN Ok(CHOOSE n \in IntLiterals : ToString(n) = text)
    ELSE Raise("ValueError")

----------------------------------------------------------------------------
GoodForm == [f \in Range(FormFields) |-> <<"A">>]

\* checkout forms: complete ones, and ones with one field empty or blank
Forms ==
    {GoodForm, [GoodForm EXCEPT !["first_name"] = <<" ", "A", " ">>]}
      \cup {[GoodForm EXCEPT ![f] = <<>>] : f \in {"first_name", "phone", "city"}}
      \cup {[GoodForm EXCEPT ![f] = <<" ">>] : f \in {"last_name", "street", "zip_code"}}

Methods == {"GET", "POST"}

----------------------------------------------------------------------------
\* State

VARIABLES
    pizzas,     \* Pizza rows
    variants,   \* PizzaVariant rows
    orders,     \* Order rows
    items,      \* OrderItem rows
    seq,        \* next primary key of each table
    cart,       \* request.session["cart"]
    csv,        \* the CSV file at the import path: header and rows
    now,        \* the clock, as of its latest reading
    last,       \* the latest request or command and its response
    inflight    \* the requests served step by step, by request number

db == <<pizzas, variants, orders, items>>

vars == <<pizzas, variants, orders, items, seq, cart, csv, now, last, inflight>>

Init ==
    /\ pizzas = {}
    /\ variants = {}
    /\ orders = {}
    /\ items = {}
    /\ seq = [pizza |-> 1, variant |-> 1, order |-> 1, item |-> 1]
    /\ cart = <<>>
    /\ csv = [header |-> Fields, rows |-> <<>>]
    /\ now = 0
    /\ last = [op |-> "init"]
    /\ inflight = <<>>

\* every primary key handed out so far is within the bound
PkBounded(s) ==
    /\ s.pizza <= MaxPk + 1
    /\ s.variant <= MaxPk + 1
    /\ s.order <= MaxOrders + 1
    /\ s.item <= MaxItems + 1

----------------------------------------------------------------------------
\* The CSV file is replaced or grows by a row

NewFile(header) ==
    /\ csv' = [header |-> header, rows |-> <<>>]
    /\ last' = [op |-> "file"]
    /\ UNCHANGED <<pizzas, variants, orders, items, seq, cart, now, inflight>>

WriteRow(row) ==
    /\ Len(csv.rows) < MaxRows
    /\ csv' = [csv EXCEPT !.rows = Append(@, row)]
    /\ last' = [op |-> "file"]
    /\ UNCHANGED <<pizzas, variants, orders, items, seq, cart, now, inflight>>

----------------------------------------------------------------------------
\* manage.py import_pizza_sales [--dry-run] [--clear]

\* a dry run that is not rolled back
Commits_IgnoreDryRun(dry_run, exc) == exc = ""

\* the run writes the tables when it is no dry run and no exception escaped
\* the row loop; otherwise the transaction is rolled back
Commits(dry_run, exc) == ~dry_run /\ exc = ""

handle(dry_run, clear) ==
    \E fin \in {_import([pizzas |-> pizzas, variants |-> variants,
                        orders |-> orders, items |-> items], seq, csv, clear)} :
       /\ PkBounded(fin.seq)
       /\ pizzas' = IF Commits(dry_run, fin.exc) THEN fin.pizzas ELSE pizzas
       /\ variants' = IF Commits(dry_run, fin.exc) THEN fin.variants ELSE variants
       /\ orders' = IF Commits(dry_run, fin.exc) THEN fin.orders ELSE orders
       /\ items' = IF Commits(dry_run, fin.exc) THEN fin.items ELSE items
       /\ seq' = IF Commits(dry_run, fin.exc) THEN fin.seq ELSE seq
       /\ last' = IF fin.exc = ""
                  THEN [op |-> "import", dry_run |-> dry_run, clear |-> clear, exc |-> "",
                        created |-> fin.created, skipped |-> fin.skipped,
                        upserted |-> fin.upserted,
                        rerun |-> last.op = "import" /\ last.exc = "" /\ ~last.dry_run]
                  ELSE [op |-> "import", dry_run |-> dry_run, clear |-> clear,
                        exc |-> fin.exc]
       /\ UNCHANGED <<cart, csv, now, inflight>>

----------------------------------------------------------------------------
\* sales/views.py

\* POST /add/ with variant_id and quantity
add_to_cart(method, variant_id, quantity) ==
    LET qty == IF quantity < 1 THEN 1 ELSE quantity
        new == _save_cart(CartAdd(cart, variant_id, qty))
    IN /\ IF method # "POST"
          THEN cart' = cart /\ last' = [op |-> "add_to_cart", code |-> 400]
          ELSE IF \A v \in variants : v.id # variant_id
          THEN cart' = cart /\ last' = [op |-> "add_to_cart", code |-> 404]
          ELSE /\ Len(new) <= MaxCart
               /\ \A e \in Range(new) : e[2] <= MaxQty
               /\ cart' = new
               /\ last' = [op |-> "add_to_cart", code |-> 302,
                           variant_id |-> variant_id, quantity |-> quantity]
       /\ UNCHANGED <<pizzas, variants, orders, items, seq, csv, now, inflight>>

\* the cart after a POST to /cart/: every listed line takes its posted
\* quantity, or keeps its own when none or no integer was posted
RECURSIVE UpdatedCart(_, _)
UpdatedCart(lines, post) ==
    IF lines = <<>> THEN <<>>
    ELSE LET item == Head(lines)
             given == IF item.variant \in DOMAIN post
                      THEN ParseInt(post[item.variant])
                      ELSE Ok(item.quantity)
             new_qty == IF given.exc = "" THEN given.val ELSE item.quantity
         IN <<<<item.variant, IF new_qty > 0 THEN new_qty ELSE 0>>>>
              \o UpdatedCart(Tail(lines), post)

\* GET or POST /cart/; post maps variant ids to the text of field qty_<id>
view_cart(method, post) ==
    LET lines == CartLines(cart, variants)
    IN /\ IF method = "POST"
          THEN /\ cart' = _save_cart(UpdatedCart(lines, post))
               /\ last' = [op |-> "view_cart", method |-> method, code |-> 302,
                           post |-> post]
          ELSE /\ cart' = cart
               /\ last' = [op |-> "view_cart", method |-> method, code |-> 200,
                           items |-> lines, subtotal |-> Subtotal(lines)]
       /\ UNCHANGED <<pizzas, variants, orders, items, seq, csv, now, inflight>>

\* GET or POST /checkout/; ts are the clock readings of the attempts at an
\* external id, t4 the reading for ordered_at
checkout(method, form, ts, t4) ==
    LET lines == CartLines(cart, variants)
        form_data == IF method = "POST" THEN form
                     ELSE [f \in Range(FormFields) |-> <<>>]
        errors == FormErrors(form_data)
        tried == Candidates(ts, orders)
        ext_id == tried[Len(tried)]
        order == NewOrder(seq.order, ext_id, t4,
                          strip(form_data["first_name"]), strip(form_data["last_name"]),
                          strip(form_data["phone"]), strip(form_data["street"]),
                          strip(form_data["city"]), strip(form_data["zip_code"]))
    IN IF cart = <<>> \/ lines = <<>>
       THEN /\ last' = [op |-> "checkout", method |-> method, form |-> form_data,
                        to |-> "menu", message |-> "Your cart is empty."]
            /\ UNCHANGED <<pizzas, variants, orders, items, seq, cart, csv, now, inflight>>
       ELSE IF method # "POST" \/ errors # {}
       THEN /\ last' = [op |-> "checkout", method |-> method, form |-> form_data,
                        to |-> "page", errors |-> errors,
                        items |-> lines, subtotal |-> Subtotal(lines)]
            /\ UNCHANGED <<pizzas, variants, orders, items, seq, cart, csv, now, inflight>>
       ELSE IF OrderLookup(orders, ext_id) # {}
       THEN /\ now' = ts[Len(ts)]
            /\ last' = [op |-> "checkout", method |-> method, form |-> form_data,
                        to |-> "cart", tried |-> tried,
                        message |-> "Unable to create order. Please try again."]
            /\ UNCHANGED <<pizzas, variants, orders, items, seq, cart, csv, inflight>>
       ELSE /\ ts[Len(tried)] <= t4
            /\ seq.order <= MaxOrders
            /\ seq.item + Len(lines) <= MaxItems + 1
            /\ orders' = orders \cup {order}
            /\ items' = items \cup CreateItems(lines, order.id, seq.item)
            /\ seq' = [seq EXCEPT !.order = @ + 1, !.item = @ + Len(lines)]
            /\ cart' = _save_cart(<<>>)
            /\ now' = t4
            /\ last' = [op |-> "checkout", method |-> method, form |-> form_data,
                        to |-> "success", tried |-> tried, order_id |-> order.id]
            /\ UNCHANGED <<pizzas, variants, csv, inflight>>

\* The same view served step by step, so that requests overlap.  Request r
\* first runs lines 108-171 inside its transaction: it reads the session cart
\* and the variants, validates the form and looks for an external id that no
\* committed Order has, at the clock readings ts
checkout_begin(r, form, ts) ==
    /\ r \notin DOMAIN inflight
    /\ \E lines \in {CartLines(cart, variants)}, tried \in {Candidates(ts, orders)} :
         IF cart = <<>> \/ lines = <<>>
         THEN /\ inflight' = inflight @@
                   (r :> [op |-> "checkout", pc |-> "done", to |-> "menu"])
              /\ last' = [op |-> "checkout", method |-> "POST", form |-> form,
                          to |-> "menu", message |-> "Your cart is empty."]
              /\ now' = now
         ELSE IF FormErrors(form) # {}
         THEN /\ inflight' = inflight @@
                   (r :> [op |-> "checkout", pc |-> "done", to |-> "page"])
              /\ last' = [op |-> "checkout", method |-> "POST", form |-> form,
                          to |-> "page", errors |-> FormErrors(form),
                          items |-> lines, subtotal |-> Subtotal(lines)]
              /\ now' = now
         ELSE IF OrderLookup(orders, tried[Len(tried)]) # {}
         THEN /\ inflight' = inflight @@
                   (r :> [op |-> "checkout", pc |-> "done", to |-> "cart"])
              /\ last' = [op |-> "checkout", method |-> "POST", form |-> form,
                          to |-> "cart", tried |-> tried,
                          message |-> "Unable to create order. Please try again."]
              /\ now' = ts[Len(ts)]
         ELSE /\ inflight' = inflight @@
                   (r :> [op |-> "checkout", pc |-> "checked", form |-> form,
                          lines |-> lines, tried |-> tried])
              /\ last' = last
              /\ now' = ts[Len(tried)]
    /\ UNCHANGED <<pizzas, variants, orders, items, seq, cart, csv>>

\* the outcomes of an INSERT that meets a committed Order of the same
\* external_id: the unique constraint, or on a database that locks as a
\* whole the lock the other transaction held
InsertFailures == {"IntegrityError", "OperationalError"}

\* ... and then runs lines 173-194 and commits: the INSERT of the Order meets
\* the unique constraint on external_id, whatever the check at line 167 saw
checkout_commit(r, t4) ==
    /\ r \in DOMAIN inflight
    /\ inflight[r].op = "checkout"
    /\ inflight[r].pc = "checked"
    /\ \E q \in {inflight[r]} :
         IF OrderLookup(orders, q.tried[Len(q.tried)]) # {}
         THEN \E exc \in InsertFailures :
                /\ inflight' = [inflight EXCEPT ![r] =
                                  [op |-> "checkout", pc |-> "done", to |-> "error",
                                   exc |-> exc]]
                /\ last' = [op |-> "checkout", method |-> "POST", form |-> q.form,
                            to |-> "error", tried |-> q.tried, exc |-> exc]
                /\ UNCHANGED <<pizzas, variants, orders, items, seq, cart, csv, now>>
         ELSE /\ seq.order <= MaxOrders
              /\ seq.item + Len(q.lines) <= MaxItems + 1
              /\ orders' = orders \cup
                   {NewOrder(seq.order, q.tried[Len(q.tried)], t4,
                             strip(q.form["first_name"]), strip(q.form["last_name"]),
                             strip(q.form["phone"]), strip(q.form["street"]),
                             strip(q.form["city"]), strip(q.form["zip_code"]))}
              /\ items' = items \cup CreateItems(q.lines, seq.order, seq.item)
              /\ seq' = [seq EXCEPT !.order = @ + 1, !.item = @ + Len(q.lines)]
              /\ cart' = _save_cart(<<>>)
              /\ now' = t4
              /\ inflight' = [inflight EXCEPT ![r] =
                                [op |-> "checkout", pc |-> "done", to |-> "success",
                                 order_id |-> seq.order]]
              /\ last' = [op |-> "checkout", method |-> "POST", form |-> q.form,
                          to |-> "success", tried |-> q.tried, order_id |-> seq.order]
              /\ UNCHANGED <<pizzas, variants, csv>>

----------------------------------------------------------------------------
\* kitchen/views.py

\* only a delivered order is held back
Dispatchable_UnlessDelivered(status) == status # "delivered"

\* the statuses from which an order is sent out
Dispatchable(status) == status \notin {"out_for_delivery", "delivered"}

\* POST /api/orders/<order_id>/send/ at clock reading t
api_send_for_delivery(order_id, t) ==
    IF \A o \in orders : o.id # order_id
    THEN /\ last' = [op |-> "send", order_id |-> order_id, code |-> 404]
         /\ UNCHANGED <<pizzas, variants, orders, items, seq, cart, csv, now, inflight>>
    ELSE LET order == CHOOSE o \in orders : o.id = order_id
         IN IF Dispatchable(order.status)
            THEN /\ orders' = Save(orders, [order EXCEPT !.status = "out_for_delivery",
                                                         !.out_for_delivery_at = t])
                 /\ now' = t
                 /\ last' = [op |-> "send", order_id |-> order_id, code |-> 200,
                             status |-> "out_for_delivery"]
                 /\ UNCHANGED <<pizzas, variants, items, seq, cart, csv, inflight>>
            ELSE /\ last' = [op |-> "send", order_id |-> order_id, code |-> 200,
                             status |-> order.status]
                 /\ UNCHANGED <<pizzas, variants, orders, items, seq, cart, csv, now, inflight>>

\* The same view served step by step, so that requests overlap: request r
\* reads the order (line 61) ...
send_read(r, order_id) ==
    /\ r \notin DOMAIN inflight
    /\ IF \A o \in orders : o.id # order_id
       THEN /\ inflight' = inflight @@ (r :> [op |-> "send", pc |-> "done", code |-> 404])
            /\ last' = [op |-> "send", order_id |-> order_id, code |-> 404]
       ELSE /\ inflight' = inflight @@
                 (r :> [op |-> "send", pc |-> "read",
                        order |-> CHOOSE o \in orders : o.id = order_id])
            /\ last' = last
    /\ UNCHANGED <<pizzas, variants, orders, items, seq, cart, csv, now>>

\* ... and then tests the status it has read and saves status and
\* out_for_delivery_at at clock reading t (lines 63-67); update_fields writes
\* these two columns of the row and no other
send_save(r, t) ==
    /\ r \in DOMAIN inflight
    /\ inflight[r].op = "send"
    /\ inflight[r].pc = "read"
    /\ \E order \in {inflight[r].order} :
         IF Dispatchable(order.status)
         THEN /\ orders' = {IF o.id = order.id
                            THEN [o EXCEPT !.status = "out_for_delivery",
                                           !.out_for_delivery_at = t]
                            ELSE o : o \in orders}
              /\ now' = t
              /\ last' = [op |-> "send", order_id |-> order.id, code |-> 200,
                          status |-> "out_for_delivery"]
              /\ inflight' = [inflight EXCEPT ![r] =
                                [op |-> "send", pc |-> "done", code |-> 200]]
              /\ UNCHANGED <<pizzas, variants, items, seq, cart, csv>>
         ELSE /\ last' = [op |-> "send", order_id |-> order.id, code |-> 200,
                          status |-> order.status]
              /\ inflight' = [inflight EXCEPT ![r] =
                                [op |-> "send", pc |-> "done", code |-> 200]]
              /\ UNCHANGED <<pizzas, variants, orders, items, seq, cart, csv, now>>

\* the local date of a time of the model's scale, as a day number
Day(t) == t \div 86400

\* an order that is out for delivery is listed again
Listed_UnlessDelivered(status) == status # "delivered"

\* .exclude(status__in=[OUT_FOR_DELIVERY, DELIVERED])
Listed(status) == status \notin {"out_for_delivery", "delivered"}

\* the rows of the queryset: today's orders that are not excluded
OpenToday(today) ==
    {o \in orders : Day(o.ordered_at) = today /\ Listed(o.status)}

\* order_by('-ordered_at'): the orders of S from the newest to the oldest;
\* orders of one timestamp come in any order
NewestFirst(S) ==
    {q \in [1..Cardinality(S) -> S] :
       \A i \in 1..Cardinality(S), j \in 1..Cardinality(S) :
         i < j => q[i] # q[j] /\ q[i].ordered_at >= q[j].ordered_at}

\* PizzaVariant.get_size_display(): the label of a known size, else the value
get_size_display(size) ==
    CASE size = <<"S">> -> "Small"
      [] size = <<"M">> -> "Medium"
      [] size = <<"L">> -> "Large"
      [] size = <<"XL">> -> "XL"
      [] size = <<"XXL">> -> "XXL"
      [] OTHER -> size

\* one item of the response
ItemJson(it) ==
    [id |-> it.id,
     qty |-> it.quantity,
     pizza |-> (CHOOSE z \in pizzas :
                  z.id = (CHOOSE v \in variants : v.id = it.variant).pizza).name,
     size |-> get_size_display((CHOOSE v \in variants : v.id = it.variant).size)]

\* one order of the response; ordered_at is shown as the time of day
OrderJson(o) ==
    [id |-> o.id,
     external_id |-> o.external_id,
     ordered_at |-> o.ordered_at % 86400,
     status |-> o.status,
     items |-> {ItemJson(it) : it \in {x \in items : x.order = o.id}}]

\* GET /api/orders/open/ at clock reading t
api_open_orders(t) ==
    \E qs \in NewestFirst(OpenToday(Day(t))) :
      /\ last' = [op |-> "open", code |-> 200,
                  orders |-> [i \in DOMAIN qs |-> OrderJson(qs[i])]]
      /\ now' = t
      /\ UNCHANGED <<pizzas, variants, orders, items, seq, cart, csv, inflight>>

----------------------------------------------------------------------------
\* sales/admin.py

\* the status field of an Order is edited in the admin site
AdminSetStatus(order_id, status) ==
    /\ \E o \in orders : o.id = order_id /\ o.status # status
    /\ orders' = Save(orders, [(CHOOSE o \in orders : o.id = order_id)
                                 EXCEPT !.status = status])
    /\ last' = [op |-> "admin"]
    /\ UNCHANGED <<pizzas, variants, items, seq, cart, csv, now, inflight>>

----------------------------------------------------------------------------
\* Specifications

Times == now..MaxTime

\* the clock readings of the attempts: the clock never runs backwards
Readings ==
    {ts \in [1..Attempts -> Times] : \A i \in 1..(Attempts - 1) : ts[i] <= ts[i + 1]}

PostTexts == {"-1", "0", ToString(MaxQty), "x"}

\* the import command
ImportCmd == \E dry_run \in BOOLEAN, clear \in BOOLEAN : handle(dry_run, clear)

AddToCart ==
    \/ add_to_cart("GET", 1, 1)
    \/ \E v \in 1..MaxPk, q \in 0..MaxQty : add_to_cart("POST", v, q)

ViewCart ==
    \/ view_cart("GET", <<>>)
    \/ \E ks \in SUBSET CartKeys(cart) :
         \E post \in [ks -> PostTexts] : view_cart("POST", post)

\* a checkout that reads no clock: a GET, or a POST of an incomplete form
CheckoutPage ==
    \/ checkout("GET", GoodForm, [i \in 1..Attempts |-> now], now)
    \/ \E f \in Forms :
         FormErrors(f) # {} /\ checkout("POST", f, [i \in 1..Attempts |-> now], now)

\* a POST of a complete form; the clock may advance between its readings
CheckoutPost ==
    \E f \in Forms, ts \in Readings, t4 \in Times :
      /\ FormErrors(f) = {}
      /\ checkout("POST", f, ts, t4)

SendForDelivery == \E o \in 1..MaxOrders, t \in Times : api_send_for_delivery(o, t)

AdminEdit == \E o \in 1..MaxOrders, st \in Status : AdminSetStatus(o, st)

OpenOrders == \E t \in Times : api_open_orders(t)

FileEdit ==
    \/ \E h \in Headers : NewFile(h)
    \/ \E r \in RowPool : WriteRow(r)

\* the ordering flow on the sales file the project ships with
ShippedFile == [header |-> Fields, rows |-> <<RowA, RowK>>]

InitShipped ==
    /\ pizzas = {}
    /\ variants = {}
    /\ orders = {}
    /\ items = {}
    /\ seq = [pizza |-> 1, variant |-> 1, order |-> 1, item |-> 1]
    /\ cart = <<>>
    /\ csv = ShippedFile
    /\ now = 0
    /\ last = [op |-> "init"]
    /\ inflight = <<>>

Next ==
    \/ ImportCmd
    \/ AddToCart
    \/ ViewCart
    \/ CheckoutPage
    \/ CheckoutPost

Spec == InitShipped /\ [][Next]_vars

\* the importer on arbitrary files
NextImport ==
    \/ FileEdit
    \/ ImportCmd

SpecImport == Init /\ [][NextImport]_vars

\* imports, checkouts and dispatch together
NextAll ==
    \/ ImportCmd
    \/ \E v \in 1..MaxPk : add_to_cart("POST", v, 1)
    \/ CheckoutPost
    \/ SendForDelivery

SpecAll == InitShipped /\ [][NextAll]_vars

\* the kitchen on imported orders
NextKitchen ==
    \/ ImportCmd
    \/ AdminEdit
    \/ SendForDelivery

SpecKitchen == InitShipped /\ [][NextKitchen]_vars

\* web orders between imports of a file whose prices change
NextWeb ==
    \/ ImportCmd
    \/ NewFile(Fields)
    \/ WriteRow(RowC)
    \/ \E v \in 1..MaxPk : add_to_cart("POST", v, 1)
    \/ CheckoutPost

SpecWeb == InitShipped /\ [][NextWeb]_vars

\* requests that overlap
Requests == 1..MaxReq

CheckoutBegin ==
    \E r \in Requests, ts \in Readings :
      /\ CartLines(cart, variants) # <<>>
      /\ checkout_begin(r, GoodForm, ts)

CheckoutCommit == \E r \in Requests, t4 \in Times : checkout_commit(r, t4)

SendRead == \E r \in Requests, o \in 1..MaxOrders : send_read(r, o)

SendSave == \E r \in Requests, t \in Times : send_save(r, t)

NextRace ==
    \/ handle(FALSE, FALSE)
    \/ \E v \in 1..MaxPk : add_to_cart("POST", v, 1)
    \/ CheckoutBegin
    \/ CheckoutCommit
    \/ SendRead
    \/ SendSave

SpecRace == InitShipped /\ [][NextRace]_vars

\* the kitchen on a day with two orders of that day and one of another day
KitchenFile == [header |-> Fields, rows |-> <<RowC, RowL, RowB>>]

InitKitchenDay ==
    /\ pizzas = {}
    /\ variants = {}
    /\ orders = {}
    /\ items = {}
    /\ seq = [pizza |-> 1, variant |-> 1, order |-> 1, item |-> 1]
    /\ cart = <<>>
    /\ csv = KitchenFile
    /\ now = 0
    /\ last = [op |-> "init"]
    /\ inflight = <<>>

NextOpen ==
    \/ ImportCmd
    \/ AdminEdit
    \/ SendForDelivery
    \/ OpenOrders

SpecOpen == InitKitchenDay /\ [][NextOpen]_vars

----------------------------------------------------------------------------
\* Properties of the ordering flow (specification Spec)

\* a text that is missing or only whitespace
IsBlank(text) == \A i \in 1..Len(text) : text[i] = " "

\* the cart entries whose variant exists
LiveKeys == {k \in CartKeys(cart) : \E v \in variants : v.id = k}

UnitPriceOf(k) == (CHOOSE v \in variants : v.id = k).unit_price

RECURSIVE SumOver(_, _)
SumOver(S, f) ==
    IF S = {} THEN 0
    ELSE LET x == CHOOSE y \in S : TRUE IN f[x] + SumOver(S \ {x}, f)

\* the page lists one line for each cart entry whose variant exists, with the
\* cart's quantity, the variant's unit price and their product, and shows the
\* sum of these products as the subtotal
PageTotalsRight(page) ==
    /\ Len(page.items) = Cardinality(LiveKeys)
    /\ {page.items[i].variant : i \in 1..Len(page.items)} = LiveKeys
    /\ \A i \in 1..Len(page.items) :
         /\ page.items[i].quantity = CartQty(cart, page.items[i].variant)
         /\ page.items[i].unit_price = UnitPriceOf(page.items[i].variant)
         /\ page.items[i].total_price = page.items[i].unit_price * page.items[i].quantity
    /\ page.subtotal
         = SumOver(LiveKeys, [k \in LiveKeys |-> UnitPriceOf(k) * CartQty(cart, k)])

\* C3: the subtotal shown by view_cart and by the checkout page is the sum of
\* the line totals of the listed items, each the variant's unit price times
\* the cart quantity; a cart entry whose variant does not exist is not listed
\* and adds nothing
C3_SubtotalIsSumOfLines ==
    /\ (last.op = "view_cart" /\ last.code = 200) => PageTotalsRight(last)
    /\ (last.op = "checkout" /\ last.to = "page") => PageTotalsRight(last)

C3_Witness ==
    /\ last.op = "view_cart"
    /\ last.code = 200
    /\ Len(last.items) = 1
    /\ last.items[1].quantity = 2
    /\ Len(cart) = 2
    /\ last.subtotal > 0

\* C6: a POST to checkout with one of the six customer fields missing or only
\* whitespace, and any GET to checkout, creates no Order and no OrderItem and
\* leaves the session cart unchanged
C6_IncompleteFormChangesNothing ==
    [][(/\ last'.op = "checkout"
        /\ \/ last'.method = "GET"
           \/ \E x \in Range(FormFields) : IsBlank(last'.form[x]))
         => UNCHANGED <<orders, items, cart>>]_vars

C6_Witness ==
    /\ last.op = "checkout"
    /\ last.method = "POST"
    /\ last.to = "page"
    /\ IsBlank(last.form["zip_code"])
    /\ Len(cart) = 2

\* a candidate external id that some Order already has
Taken(ext_id) == \E o \in orders : o.external_id = ext_id

\* what a successful checkout leaves behind: one new Order, one new OrderItem
\* for every cart entry whose variant exists, and an empty cart
CheckoutCreated ==
    LET new_orders == orders' \ orders
        new_items == items' \ items
    IN /\ orders \subseteq orders'
       /\ items \subseteq items'
       /\ Cardinality(new_orders) = 1
       /\ \A o \in new_orders : o.id = last'.order_id /\ ~Taken(o.external_id)
       /\ Cardinality(new_items) = Cardinality(LiveKeys)
       /\ \A k \in LiveKeys :
            \E it \in new_items :
              /\ it.variant = k
              /\ it.order = last'.order_id
              /\ it.quantity = CartQty(cart, k)
              /\ it.unit_price = UnitPriceOf(k)
              /\ it.total_price = it.unit_price * it.quantity
              /\ it.source_line_id = NullLine
       /\ cart' = <<>>

\* C2: a POST to checkout with all six customer fields non-blank and a cart
\* with at least one entry whose variant exists creates, unless every
\* candidate external id is taken, exactly one Order and exactly one OrderItem
\* per cart entry whose variant exists, each with the cart's quantity, the
\* variant's unit price, their product as total and a null source_line_id,
\* and empties the cart
C2_CheckoutCreatesOrder ==
    [][(/\ last'.op = "checkout"
        /\ last'.method = "POST"
        /\ \A x \in Range(FormFields) : ~IsBlank(last'.form[x])
        /\ LiveKeys # {})
         => /\ last'.to \in {"success", "cart"}
            /\ last'.to = "cart" => \A i \in 1..Len(last'.tried) : Taken(last'.tried[i])
            /\ last'.to = "success" => CheckoutCreated]_vars

C2_Witness ==
    /\ last.op = "checkout"
    /\ last.to = "success"
    /\ cart = <<>>
    /\ \E a \in items, b \in items :
         /\ a.order = last.order_id /\ b.order = last.order_id
         /\ a.variant # b.variant
         /\ a.quantity = 2
         /\ a.source_line_id = NullLine /\ b.source_line_id = NullLine

\* C5: checkout tries at most 3 candidate external ids; when every candidate
\* tried is the external_id of an existing Order it creates no Order and no
\* OrderItem, leaves the cart unchanged and redirects to the cart page with an
\* error message
C5_CollisionsGiveUp ==
    [][(last'.op = "checkout" /\ "tried" \in DOMAIN last')
         => /\ Len(last'.tried) <= 3
            /\ (\A i \in 1..Len(last'.tried) : Taken(last'.tried[i]))
                 => /\ UNCHANGED <<orders, items, cart>>
                    /\ last'.to = "cart"
                    /\ last'.message = "Unable to create order. Please try again."]_vars

C5_Witness ==
    /\ last.op = "checkout"
    /\ last.to = "cart"
    /\ Len(last.tried) = 3
    /\ cart # <<>>

\* the quantity the cart c holds for variant k, 0 when it holds none
QtyIn(c, k) == IF k \in CartKeys(c) THEN CartQty(c, k) ELSE 0

\* the text posted for a quantity is an integer below 1
PostedBelowOne(text) == ParseInt(text).exc = "" /\ ParseInt(text).val < 1

\* the text posted for a quantity is an integer above 0
PostedPositive(text) == ParseInt(text).exc = "" /\ ParseInt(text).val > 0

\* C14: every step of the ordering flow leaves only positive quantities in
\* the session cart; add_to_cart adds the requested quantity, or 1 when it is
\* below 1, to the quantity the cart holds for that variant and changes no
\* other entry; a cart update drops every entry whose posted quantity is 0
\* or negative and stores a posted positive quantity
C14_CartQuantitiesPositive ==
    [][/\ \A i \in 1..Len(cart') : cart'[i][2] \in Nat \ {0}
       /\ (last'.op = "add_to_cart" /\ last'.code = 302)
            => /\ QtyIn(cart', last'.variant_id)
                    = QtyIn(cart, last'.variant_id)
                        + (IF last'.quantity < 1 THEN 1 ELSE last'.quantity)
               /\ \A k \in CartKeys(cart) \cup CartKeys(cart') :
                    k # last'.variant_id => QtyIn(cart', k) = QtyIn(cart, k)
       /\ (last'.op = "view_cart" /\ last'.method = "POST")
            => \A k \in DOMAIN last'.post :
                 /\ PostedBelowOne(last'.post[k]) => k \notin CartKeys(cart')
                 /\ (PostedPositive(last'.post[k]) /\ k \in LiveKeys)
                      => QtyIn(cart', k) = ParseInt(last'.post[k]).val]_vars

C14_Witness ==
    /\ last.op = "view_cart"
    /\ last.method = "POST"
    /\ \E k \in DOMAIN last.post : last.post[k] = "-1" /\ k \notin CartKeys(cart)
    /\ \E k \in DOMAIN last.post : last.post[k] = "x" /\ k \in CartKeys(cart)

----------------------------------------------------------------------------
\* Properties of the importer (specification SpecImport)

NoneCreated == [pizza |-> 0, variant |-> 0, order |-> 0, item |-> 0]

\* row i of the file as the try block of the row loop leaves it
Parsed(i) == ParseMemo[csv.header][csv.rows[i]]

\* the rows of the file that parse
Parsable == {i \in 1..Len(csv.rows) : Parsed(i).exc = ""}

\* C1: a second run on the same file, without --clear and with no write in
\* between, leaves every Pizza, PizzaVariant, Order and OrderItem as the first
\* run left it and reports zero created pizzas, variants, orders and items
C1_ImportIdempotent ==
    [][(/\ last.op = "import" /\ last.exc = "" /\ ~last.dry_run
        /\ last'.op = "import" /\ ~last'.clear
        /\ csv' = csv)
         => /\ last'.exc = ""
            /\ db' = db
            /\ last'.created = NoneCreated]_vars

C1_Witness ==
    /\ last.op = "import"
    /\ last.exc = ""
    /\ last.rerun
    /\ ~last.clear
    /\ ~last.dry_run
    /\ csv.rows = <<RowA, RowB>>
    /\ Cardinality(variants) = 2

\* C7: a row that fails to parse creates and modifies nothing, adds one to
\* the skipped count and does not keep later rows from being imported: the
\* run ends with every failing row counted as skipped and every other row
\* upserted (runs that the database itself stops are left aside)
C7_ParseFailuresAreSkipped ==
    (last.op = "import" /\ last.exc \notin {"IntegrityError", "MultipleObjectsReturned"})
      => /\ last.exc = ""
         /\ last.skipped = Len(csv.rows) - Cardinality(Parsable)
         /\ last.skipped + last.upserted = Len(csv.rows)

\* C8: a run with --dry-run, with or without --clear, leaves every table as
\* it was, and when it ends it still reports its counts: every row is counted
\* as skipped or processed, and with --clear the items and orders it would
\* create are the distinct line ids and order ids of the rows that parse
C8_DryRunWritesNothing ==
    [][(last'.op = "import" /\ last'.dry_run)
         => /\ db' = db
            /\ last'.exc = "" =>
                 /\ last'.skipped + last'.upserted = Len(csv.rows)
                 /\ last'.skipped = Len(csv.rows) - Cardinality(Parsable)
                 /\ last'.clear =>
                      /\ last'.created.item
                           = Cardinality({Parsed(i).source_line_id : i \in Parsable})
                      /\ last'.created.order
                           = Cardinality({Parsed(i).order_id : i \in Parsable})]_vars

C8_Witness ==
    /\ last.op = "import"
    /\ last.dry_run
    /\ last.clear
    /\ last.exc = ""
    /\ last.created.item = 1
    /\ last.skipped = 1
    /\ items # {}
    /\ orders # {}

\* the line id of a row that parses
LineOf(i) == Parsed(i).source_line_id

\* exactly one OrderItem carries the line id of the parsed row p, and it has
\* the row's order, variant, quantity and prices
ItemIsRow(p) ==
    /\ Cardinality({it \in items : it.source_line_id = p.source_line_id}) = 1
    /\ \A it \in items :
         it.source_line_id = p.source_line_id
           => /\ \E o \in orders : o.id = it.order /\ o.external_id = p.order_id
              /\ \E v \in variants, z \in pizzas :
                   /\ v.id = it.variant /\ v.size = p.size
                   /\ z.id = v.pizza /\ z.name = p.name
                   /\ z.category = p.category
              /\ it.quantity = p.qty
              /\ it.unit_price = p.unit_price
              /\ it.total_price = p.total_price

\* C9: after a run, every source_line_id of a row that parses has exactly
\* one OrderItem, whose order, variant, quantity, unit_price and total_price
\* are those of the last such row of the file
C9_LastRowWins ==
    (last.op = "import" /\ last.exc = "" /\ ~last.dry_run)
      => \A i \in Parsable :
           (\A j \in Parsable : LineOf(j) = LineOf(i) => j <= i)
             => ItemIsRow(Parsed(i))

C9_Witness ==
    /\ last.op = "import"
    /\ last.exc = ""
    /\ ~last.dry_run
    /\ last.created.item = 0
    /\ csv.rows = <<RowB, RowA>>
    /\ \E it \in items : it.source_line_id = 1 /\ it.quantity = 1

\* the timestamps of the rows that parse and carry the order id e
RowTimes(e) ==
    {Parsed(i).ordered_at : i \in {j \in Parsable : Parsed(j).order_id = e}}

Earliest(S) == CHOOSE t \in S : \A u \in S : t <= u

\* C12: after a run the ordered_at of every order the file names is the
\* earliest of the timestamp stored before the run (when the order existed
\* and was not cleared) and the timestamps of all rows that parse and carry
\* its order id
C12_KeepsEarliestTimestamp ==
    [][(last'.op = "import" /\ last'.exc = "" /\ ~last'.dry_run)
         => \A o \in orders' :
              RowTimes(o.external_id) # {}
                => o.ordered_at
                     = Earliest(RowTimes(o.external_id)
                         \cup {q.ordered_at : q \in {r \in orders :
                                 ~last'.clear /\ r.external_id = o.external_id}})]_vars

\* rows p and q name the same (pizza, size)
SameVariant(p, q) == p.name = q.name /\ p.category = q.category /\ p.size = q.size

\* the variant the parsed row p names has the unit price of p
PriceIsRow(p) ==
    \A v \in variants, z \in pizzas :
      (z.id = v.pizza /\ z.name = p.name /\ z.category = p.category /\ v.size = p.size)
        => v.unit_price = p.unit_price

\* C13: after a run the unit_price of every variant the file touches is the
\* unit_price of the last row of the file that parses and names that
\* (pizza, size)
C13_VariantPriceIsLatest ==
    (last.op = "import" /\ last.exc = "" /\ ~last.dry_run)
      => \A i \in Parsable :
           (\A j \in Parsable : SameVariant(Parsed(j), Parsed(i)) => j <= i)
             => PriceIsRow(Parsed(i))

----------------------------------------------------------------------------
\* Web orders under imports (specification SpecWeb)

\* the items of web orders
WebItems(its) == {it \in its : it.source_line_id = NullLine}

\* C17: a run of the import without --clear, whatever its outcome, leaves
\* every OrderItem with a null source_line_id as it was (order, variant,
\* quantity, unit_price, total_price), and creates and deletes none, also
\* when it changes the unit_price of the item's variant
C17_ImportKeepsWebItems ==
    [][(last'.op = "import" /\ ~last'.clear)
         => WebItems(items') = WebItems(items)]_vars

C17_Witness ==
    /\ last.op = "import"
    /\ ~last.clear
    /\ ~last.dry_run
    /\ last.exc = ""
    /\ \E it \in WebItems(items), v \in variants :
         v.id = it.variant /\ v.unit_price # it.unit_price

----------------------------------------------------------------------------
\* Uniqueness of the keys (specification SpecAll)

\* C4: in every state reached by imports, checkouts and kitchen status
\* updates no two Pizzas share (name, category), no two PizzaVariants share
\* (pizza, size), no two Orders share external_id and no two OrderItems share
\* a non-null source_line_id
C4_KeysUnique ==
    /\ \A a \in pizzas, b \in pizzas :
         (a.name = b.name /\ a.category = b.category) => a = b
    /\ \A a \in variants, b \in variants :
         (a.pizza = b.pizza /\ a.size = b.size) => a = b
    /\ \A a \in orders, b \in orders :
         a.external_id = b.external_id => a = b
    /\ \A a \in items, b \in items :
         (a.source_line_id # NullLine /\ a.source_line_id = b.source_line_id) => a = b

C4_Witness ==
    /\ last.op = "import"
    /\ last.exc = ""
    /\ ~last.dry_run
    /\ \E o \in orders : o.external_id >= 1000000000 /\ o.status = "out_for_delivery"
    /\ \E o \in orders : o.external_id < 1000000000
    /\ Cardinality({it \in items : it.source_line_id = NullLine}) = 2
    /\ \E it \in items : it.source_line_id # NullLine

----------------------------------------------------------------------------
\* Properties of the kitchen (specification SpecKitchen)

\* C10: api_send_for_delivery changes an order only when its status is new or
\* preparing, setting the status to out_for_delivery and recording
\* out_for_delivery_at; an order that is out_for_delivery or delivered is left
\* as it is, so no call takes a status back to new or preparing or away from
\* delivered; no other order changes
C10_SendOnlyFromOpen ==
    [][(last'.op = "send" /\ last'.code = 200)
         => LET before == CHOOSE o \in orders : o.id = last'.order_id
                after == CHOOSE o \in orders' : o.id = last'.order_id
            IN /\ Cardinality(orders') = Cardinality(orders)
               /\ \A o \in orders : o.id # last'.order_id => o \in orders'
               /\ IF before.status \in {"new", "preparing"}
                  THEN /\ after = [before EXCEPT !.status = "out_for_delivery",
                                                 !.out_for_delivery_at = now']
                       /\ now' >= now
                  ELSE after = before
               /\ after.status \notin {"new", "preparing"}
               /\ before.status = "delivered" => after.status = "delivered"]_vars

C10_Witness ==
    /\ last.op = "send"
    /\ last.code = 200
    /\ \E o \in orders :
         /\ o.id = last.order_id
         /\ o.status = "delivered"
         /\ o.out_for_delivery_at # NullTime

----------------------------------------------------------------------------
\* Properties of the kitchen feed (specification SpecOpen)

\* the stored order a listed order stands for
Stored(j) == CHOOSE o \in orders : o.id = j.id

\* the response lists exactly today's orders with status new or preparing,
\* each once, from the newest to the oldest
FeedIsOpenToday ==
    /\ {last.orders[i].id : i \in DOMAIN last.orders}
         = {o.id : o \in {x \in orders : /\ Day(x.ordered_at) = Day(now)
                                         /\ x.status \in {"new", "preparing"}}}
    /\ \A i \in DOMAIN last.orders, j \in DOMAIN last.orders :
         i < j => /\ last.orders[i].id # last.orders[j].id
                  /\ Stored(last.orders[i]).ordered_at >= Stored(last.orders[j]).ordered_at

\* C11 as stated: the response of api_open_orders is exactly today's orders
\* with status new or preparing, newest first, and an order that
\* api_send_for_delivery has sent out is in no later response
C11_FeedNeverListsSent ==
    last.op = "open"
      => /\ FeedIsOpenToday
         /\ \A i \in DOMAIN last.orders :
              Stored(last.orders[i]).out_for_delivery_at = NullTime

\* C11, amended: the response of api_open_orders is exactly today's orders
\* with status new or preparing, newest first; an order that
\* api_send_for_delivery has sent out is in no response for as long as its
\* status is out_for_delivery or delivered
C11_FeedListsOpenToday ==
    last.op = "open"
      => /\ FeedIsOpenToday
         /\ \A o \in orders :
              (o.out_for_delivery_at # NullTime
                 /\ o.status \in {"out_for_delivery", "delivered"})
                => \A i \in DOMAIN last.orders : last.orders[i].id # o.id

C11_Witness ==
    /\ last.op = "open"
    /\ Len(last.orders) = 1
    /\ last.orders[1].status = "preparing"
    /\ \E o \in orders :
         /\ Day(o.ordered_at) = Day(now)
         /\ o.status = "out_for_delivery"
         /\ o.out_for_delivery_at # NullTime
    /\ \E o \in orders : Day(o.ordered_at) # Day(now) /\ o.status = "new"

----------------------------------------------------------------------------
\* Properties of overlapping requests (specification SpecRace)

\* the checkout requests that have ended
CheckoutsDone ==
    {r \in DOMAIN inflight : inflight[r].op = "checkout" /\ inflight[r].pc = "done"}

\* C15: every checkout request with a valid form and a cart that is not
\* empty, also one that overlaps another within the same clock second, ends
\* with its own Order under an external_id of its own; none fails on the
\* uniqueness of external_id after it passed the collision check
C15_OverlappingCheckoutsSucceed ==
    /\ \A r \in CheckoutsDone : inflight[r].to = "success"
    /\ \A r \in CheckoutsDone, q \in CheckoutsDone :
         r # q => \E o \in orders, u \in orders :
                    /\ o.id = inflight[r].order_id
                    /\ u.id = inflight[q].order_id
                    /\ o.external_id # u.external_id

\* C16: once an order's out_for_delivery_at is written, no step of any
\* api_send_for_delivery request writes it again
C16_SentTimestampWrittenOnce ==
    [][\A o \in orders, u \in orders' :
         (o.id = u.id /\ o.out_for_delivery_at # NullTime)
           => u.out_for_delivery_at = o.out_for_delivery_at]_vars

====
